---------------------------- MODULE Spec2Model ----------------------------
(***************************************************************************)
(* A model of the Alsokkary repository: the PromptOptimizer of             *)
(* src/prompt_optimization.py (pure string functions) and the              *)
(* AlsokkaryAgent of src/main.py (a conversation history around a remote   *)
(* chat endpoint).                                                         *)
(*                                                                         *)
(* A Python str is modelled as a sequence of one-character strings, so     *)
(* that replace, strip, split, count, lower, format and the `in' test are  *)
(* computed character by character, as Python computes them.               *)
(***************************************************************************)
EXTENDS Naturals, Sequences, FiniteSets, TLC

VARIABLES
    op,                    \* the operation called last ("none" at start)
    prompt,                \* the prompt argument of the call
    techniques,            \* the techniques argument: [given, names]
    prompt_type,           \* get_optimized_prompt's template name
    kwargs,                \* get_optimized_prompt's **kwargs, a function
    prompts,               \* batch_optimize's argument
    result,                \* the str a call returned
    results,               \* the list batch_optimize returned
    analysis,              \* the dict analyze_prompt_quality returned
    raised,                \* the exception a call raised ("" when none)
    steps,                 \* what get_optimized_prompt did, in order
    conversation_history,  \* AlsokkaryAgent.conversation_history
    sent,                  \* the messages of the last request sent
    log,                   \* (message, reply) of the chats since the reset
    before                 \* the history as it was when the last call began

vars == <<op, prompt, techniques, prompt_type, kwargs, prompts, result,
          results, analysis, raised, steps, conversation_history, sent,
          log, before>>

-----------------------------------------------------------------------------
(* Python str primitives *)

\* A str literal as a sequence of its characters.
Chars(str) == [i \in 1..Len(str) |-> SubSeq(str, i, i)]

\* The characters str.strip() and str.split() treat as whitespace.
Whitespace == {" ", "\t", "\n", "\r", "\f"}

Min(S) == CHOOSE x \in S : \A y \in S : x <= y

Max(S) == CHOOSE x \in S : \A y \in S : x >= y

\* sub occurs in s at index i.
OccursAt(s, sub, i) ==
    /\ i >= 1
    /\ i + Len(sub) - 1 <= Len(s)
    /\ \A j \in 1..Len(sub) : s[i + j - 1] = sub[j]

\* s.find(sub, from): the lowest index >= from where sub occurs, 0 if none.
Find(s, sub, from) ==
    LET hits == {i \in from..(Len(s) - Len(sub) + 1) :
                    s[i] = sub[1] /\ OccursAt(s, sub, i)}
    IN  IF hits = {} THEN 0 ELSE Min(hits)

\* sub in s
Contains(s, sub) == Find(s, sub, 1) # 0

\* s.replace(old, new) for a non-empty old: the occurrences are taken left
\* to right, each search resuming after the occurrence before; the text a
\* replacement produces is not searched again.
RECURSIVE ReplaceFrom(_, _, _, _)
ReplaceFrom(s, old, new, from) ==
    LET i == Find(s, old, from)
    IN  IF i = 0
        THEN SubSeq(s, from, Len(s))
        ELSE SubSeq(s, from, i - 1) \o new
               \o ReplaceFrom(s, old, new, i + Len(old))

Replace(s, old, new) == ReplaceFrom(s, old, new, 1)

\* s.strip()
Strip(s) ==
    LET keep == {i \in 1..Len(s) : s[i] \notin Whitespace}
    IN  IF keep = {} THEN <<>> ELSE SubSeq(s, Min(keep), Max(keep))

\* len(s.split()): the number of maximal runs of non-whitespace.
SplitLen(s) ==
    Cardinality({i \in 1..Len(s) :
                    /\ s[i] \notin Whitespace
                    /\ (i = 1 \/ s[i - 1] \in Whitespace)})

\* s.count(c) for a one-character c.
Count(s, c) == Cardinality({i \in 1..Len(s) : s[i] = c})

UpperCase == Chars("ABCDEFGHIJKLMNOPQRSTUVWXYZ")

LowerCase == Chars("abcdefghijklmnopqrstuvwxyz")

\* s.lower()
Lower(s) ==
    [i \in 1..Len(s) |->
        IF \E k \in 1..Len(UpperCase) : UpperCase[k] = s[i]
        THEN LowerCase[CHOOSE k \in 1..Len(UpperCase) : UpperCase[k] = s[i]]
        ELSE s[i]]

\* sep.join(items)
RECURSIVE Join(_, _)
Join(sep, items) ==
    IF items = <<>> THEN <<>>
    ELSE IF Len(items) = 1 THEN items[1]
    ELSE items[1] \o sep \o Join(sep, Tail(items))

-----------------------------------------------------------------------------
(* PromptOptimizer: the techniques *)

\* A slip: one of the three words is left out.
ClarityReplace_without_thanks == <<Chars("please"), Chars("okay")>>

\* clarity_rules["replace"][k][0]
ClarityReplace == <<Chars("please"), Chars("thanks"), Chars("okay")>>

\* clarity_rules["add"]
ClarityAdd ==
    <<Chars("Be concise and direct."),
      Chars("Provide specific examples."),
      Chars("Focus on actionable insights.")>>

RECURSIVE ReplaceAll(_, _)
ReplaceAll(s, olds) ==
    IF olds = <<>> THEN s
    ELSE ReplaceAll(Replace(s, Head(olds), <<>>), Tail(olds))

_enhance_clarity(p) ==
    Strip(ReplaceAll(p, ClarityReplace)
            \o Chars("\n\n") \o Join(Chars(" "), ClarityAdd))

specificity_additions ==
    <<Chars("Provide specific examples or code snippets."),
      Chars("Include exact error messages or outputs."),
      Chars("Specify the programming language if applicable."),
      Chars("Mention version numbers of tools/libraries.")>>

_add_specificity(p) ==
    p \o Chars("\n\n")
      \o Join(Chars("\n"),
              [k \in 1..Len(specificity_additions) |->
                  Chars("- ") \o specificity_additions[k]])

context_template ==
    Chars("\nCONTEXT INFORMATION:\n- Purpose: {purpose}\n")
    \o Chars("- Constraints: {constraints}\n")
    \o Chars("- Expected Output: {output}\n        ")

_add_context(p) == p \o context_template

\* The f-string of _structure_prompt before and after {prompt}.
StructureBefore == Chars("\nTASK: ")

StructureAfter ==
    Chars("\n\nREQUIREMENTS:\n")
    \o Chars("1. Provide clear, step-by-step guidance\n")
    \o Chars("2. Include code examples where applicable\n")
    \o Chars("3. Highlight important considerations\n")
    \o Chars("4. Suggest best practices\n")
    \o Chars("\nFORMAT:\n")
    \o Chars("- Use bullet points for lists\n")
    \o Chars("- Use code blocks for code\n")
    \o Chars("- Use bold for key terms\n        ")

\* A slip: the template is returned without .strip().
_structure_prompt_unstripped(p) == StructureBefore \o p \o StructureAfter

_structure_prompt(p) == Strip(StructureBefore \o p \o StructureAfter)

examples_section ==
    Chars("\nEXAMPLES:\n")
    \o Chars("- Good: [Specific example of what's expected]\n")
    \o Chars("- Avoid: [Example of what to avoid]\n        ")

_add_examples(p) == p \o Chars("\n") \o examples_section

\* The keys of self.optimization_techniques.
optimization_techniques ==
    {"clarity", "specificity", "context", "structure", "examples"}

\* self.optimization_techniques[technique](p)
ApplyTechnique(technique, p) ==
    CASE technique = "clarity"     -> _enhance_clarity(p)
      [] technique = "specificity" -> _add_specificity(p)
      [] technique = "context"     -> _add_context(p)
      [] technique = "structure"   -> _structure_prompt(p)
      [] technique = "examples"    -> _add_examples(p)

-----------------------------------------------------------------------------
(* What a call gives back: a value, or the exception it raised. *)

Return(v) == [raised |-> "", value |-> v]

Raise(e) == [raised |-> e, value |-> <<>>]

\* An argument that may be omitted (None).
None == [given |-> FALSE, names |-> <<>>]

Some(ts) == [given |-> TRUE, names |-> ts]

-----------------------------------------------------------------------------
(* PromptOptimizer.optimize *)

\* The list used when techniques is None.
DefaultTechniques == <<"clarity", "specificity", "structure">>

\* The for loop of optimize: each technique gets what the one before gave.
RECURSIVE OptimizeLoop(_, _)
OptimizeLoop(optimized, ts) ==
    IF ts = <<>> THEN optimized
    ELSE OptimizeLoop(IF Head(ts) \in optimization_techniques
                      THEN ApplyTechnique(Head(ts), optimized)
                      ELSE optimized,
                      Tail(ts))

\* A slip: the registry is indexed without the membership test.
optimize_unguarded(p, t) ==
    LET ts == IF t.given THEN t.names ELSE DefaultTechniques
    IN  IF \E k \in 1..Len(ts) : ts[k] \notin optimization_techniques
        THEN Raise("KeyError")
        ELSE Return(OptimizeLoop(p, ts))

optimize(p, t) ==
    Return(OptimizeLoop(p, IF t.given THEN t.names ELSE DefaultTechniques))

-----------------------------------------------------------------------------
(* PromptOptimizer: templates *)

\* self.prompt_templates, as _load_templates builds it.
prompt_templates ==
    [code_review |->
        Chars("Review the following code for issues:\n{code}\n")
        \o Chars("Focus on: {focus_areas}"),
     github_task |->
        Chars("Help me with this GitHub task:\n{task}\nContext: {context}"),
     optimization |->
        Chars("Optimize this {type}:\n{content}\nCriteria: {criteria}"),
     debugging |->
        Chars("Help me debug this issue:\n{issue}\nError: {error}\n")
        \o Chars("Steps: {steps}")]

\* template.format(**kw) from index `from' on, for a template whose fields
\* are plain {name} fields: the template is scanned once, each field is
\* looked up in kw (KeyError when absent) and the value is copied as it
\* is; a value is never scanned for fields.
RECURSIVE FormatFrom(_, _, _)
FormatFrom(template, kw, from) ==
    LET i == Find(template, <<"{">>, from)
    IN  IF i = 0
        THEN Return(SubSeq(template, from, Len(template)))
        ELSE LET j    == Find(template, <<"}">>, i)
                 name == SubSeq(template, i + 1, j - 1)
                 keys == {k \in DOMAIN kw : Chars(k) = name}
             IN  IF keys = {}
                 THEN Raise("KeyError")
                 ELSE LET rest == FormatFrom(template, kw, j + 1)
                      IN  IF rest.raised # ""
                          THEN rest
                          ELSE Return(SubSeq(template, from, i - 1)
                                        \o kw[CHOOSE k \in keys : TRUE]
                                        \o rest.value)

Format(template, kw) == FormatFrom(template, kw, 1)

\* The parameters of get_optimized_prompt(self, prompt_type, **kwargs): a
\* keyword argument of one of these names is a second value for the
\* parameter, and Python refuses the call with TypeError.
ParameterNames == {"self", "prompt_type"}

\* A slip: the template is rendered before the name is looked up.
get_optimized_prompt_format_first(type, kw) ==
    IF DOMAIN kw \cap ParameterNames # {}
    THEN [raised |-> "TypeError", value |-> <<>>, steps |-> <<>>]
    ELSE LET template == IF type \in DOMAIN prompt_templates
                         THEN prompt_templates[type] ELSE Chars("")
             p == Format(template, kw)
         IN  IF p.raised # ""
             THEN [raised |-> p.raised, value |-> <<>>,
                   steps |-> <<"format">>]
             ELSE IF type \notin DOMAIN prompt_templates
             THEN [raised |-> "ValueError", value |-> <<>>,
                   steps |-> <<"format">>]
             ELSE [raised |-> "", value |-> optimize(p.value, None).value,
                   steps |-> <<"format", "optimize">>]

\* A slip: the rendered template is returned as it is.
get_optimized_prompt_unoptimized(type, kw) ==
    IF DOMAIN kw \cap ParameterNames # {}
    THEN [raised |-> "TypeError", value |-> <<>>, steps |-> <<>>]
    ELSE IF type \notin DOMAIN prompt_templates
    THEN [raised |-> "ValueError", value |-> <<>>, steps |-> <<>>]
    ELSE LET p == Format(prompt_templates[type], kw)
         IN  [raised |-> p.raised, value |-> p.value,
              steps |-> <<"format">>]

\* get_optimized_prompt(prompt_type, **kw): what it raised or returned, and
\* the steps it took.
get_optimized_prompt(type, kw) ==
    IF DOMAIN kw \cap ParameterNames # {}
    THEN [raised |-> "TypeError", value |-> <<>>, steps |-> <<>>]
    ELSE IF type \notin DOMAIN prompt_templates
    THEN [raised |-> "ValueError", value |-> <<>>, steps |-> <<>>]
    ELSE LET p == Format(prompt_templates[type], kw)
         IN  IF p.raised # ""
             THEN [raised |-> p.raised, value |-> <<>>,
                   steps |-> <<"format">>]
             ELSE LET r == optimize(p.value, None)
                  IN  [raised |-> r.raised, value |-> r.value,
                       steps |-> <<"format", "optimize">>]

-----------------------------------------------------------------------------
(* PromptOptimizer.batch_optimize *)

\* A slip: a prompt seen before is not optimized again.
RECURSIVE batch_optimize_dedup(_)
batch_optimize_dedup(ps) ==
    IF ps = <<>> THEN <<>>
    ELSE LET front == SubSeq(ps, 1, Len(ps) - 1)
         IN  IF \E k \in 1..Len(front) : front[k] = ps[Len(ps)]
             THEN batch_optimize_dedup(front)
             ELSE Append(batch_optimize_dedup(front),
                         optimize(ps[Len(ps)], None).value)

\* [self.optimize(p) for p in prompts]
batch_optimize(ps) == [k \in 1..Len(ps) |-> optimize(ps[k], None).value]

-----------------------------------------------------------------------------
(* PromptOptimizer.analyze_prompt_quality *)

clarity_keywords ==
    <<Chars("specific"), Chars("exact"), Chars("clear"), Chars("show"),
      Chars("provide")>>

\* sum(10 for keyword in keywords if keyword in text)
RECURSIVE SumOfTens(_, _)
SumOfTens(keywords, text) ==
    IF keywords = <<>> THEN 0
    ELSE (IF Contains(text, Head(keywords)) THEN 10 ELSE 0)
           + SumOfTens(Tail(keywords), text)

\* A slip: the prompt is searched as typed.
_calculate_clarity_case_sensitive(p) ==
    LET score == SumOfTens(clarity_keywords, p)
    IN  IF score < 100 THEN score ELSE 100

_calculate_clarity(p) ==
    LET score == SumOfTens(clarity_keywords, Lower(p))
    IN  IF score < 100 THEN score ELSE 100

\* len(prompt.split()) / 2, a float: the pair <<numerator, denominator>>.
_calculate_specificity(p) == <<SplitLen(p), 2>>

_calculate_structure(p) ==
    LET has_sections == Count(p, "\n") >= 2
        has_format   == \E x \in {Chars(":"), Chars("1."), Chars("-"),
                                  Chars("*")} : Contains(p, x)
    IN  IF has_sections /\ has_format THEN 50 ELSE 25

\* A slip: the three checks are chained with elif.
_get_suggestions_elif(p) ==
    IF SplitLen(p) < 10
    THEN <<"Add more context and details">>
    ELSE IF Count(p, "\n") < 2
    THEN <<"Use sections or bullet points for clarity">>
    ELSE IF ~\E x \in {Chars("example"), Chars("code"), Chars("specific")} :
                Contains(p, x)
    THEN <<"Include examples or specific cases">>
    ELSE <<>>

_get_suggestions(p) ==
    LET s1 == IF SplitLen(p) < 10
              THEN <<"Add more context and details">> ELSE <<>>
        s2 == IF Count(p, "\n") < 2
              THEN Append(s1, "Use sections or bullet points for clarity")
              ELSE s1
        s3 == IF ~\E x \in {Chars("example"), Chars("code"),
                            Chars("specific")} : Contains(p, x)
              THEN Append(s2, "Include examples or specific cases")
              ELSE s2
    IN  s3

analyze_prompt_quality(p) ==
    [length            |-> SplitLen(p),
     clarity_score     |-> _calculate_clarity(p),
     specificity_score |-> _calculate_specificity(p),
     structure_score   |-> _calculate_structure(p),
     suggestions       |-> _get_suggestions(p)]

-----------------------------------------------------------------------------
(* AlsokkaryAgent *)

Turn(role, content) == [role |-> role, content |-> content]

\* chat up to the request: the user turn is appended to the history, and
\* the history, as it then is, is the request's messages.
ChatRequest(history, user_message) ==
    Append(history, Turn("user", user_message))

\* chat after the response: the reply is appended as an assistant turn.
ChatReply(history, assistant_message) ==
    Append(history, Turn("assistant", assistant_message))

\* A slip: the reset keeps the turns.
reset_conversation_keeps(history) == history

\* reset_conversation: the history after it.
reset_conversation(history) == <<>>

-----------------------------------------------------------------------------
(* Bounds and inputs *)

\* The longest technique list a call passes.
MaxTechniques == 2

\* The most fragments a generated prompt is made of.
MaxChunks == 3

\* The longest list batch_optimize is given.
MaxBatch == 3

\* The most chat calls between two resets.
MaxChats == 3

SeqsUpTo(S, n) == UNION {[1..k -> S] : k \in 0..n}

\* The concatenation of a sequence of strings.
RECURSIVE Concat(_)
Concat(parts) == IF parts = <<>> THEN <<>> ELSE Head(parts) \o Concat(Tail(parts))

\* Every prompt made of at most MaxChunks of the fragments.
PromptsOf(fragments) == {Concat(parts) : parts \in SeqsUpTo(fragments, MaxChunks)}

\* The technique names a caller passes: the registered ones and two that
\* are not (one differs from a registered name only in case).
TechniqueNames ==
    optimization_techniques \cup {"not_a_real_technique", "Clarity"}

TechniqueArgs ==
    {None} \cup {Some(ts) : ts \in SeqsUpTo(TechniqueNames, MaxTechniques)}

PipelinePrompts ==
    {Chars(""), Chars("fix this bug"), Chars("please okay thanks"),
     Chars("  Okay, help me\n"), Chars("thplepleaseaseanks"),
     Chars("\nTASK: a\n\nFORMAT:\n")}

\* Fragments that spell the words clarity removes, whole and in pieces.
ClarityFragments ==
    {Chars("please"), Chars("ple"), Chars("ase"), Chars("thanks"),
     Chars("okay"), Chars("ok"), Chars("ay"), Chars(" "), Chars("Fix "),
     Chars("okayFix")}

\* The template names a caller passes: the registered ones and two that
\* are not.
TemplateNames ==
    {"code_review", "github_task", "optimization", "debugging",
     "nonexistent_template", "Code_Review"}

\* The keyword names a caller passes with a template name: the fields of
\* the template, a key no template has, and a key that is also the name of
\* a parameter of the method.
KwargNames(type) ==
    {"extra", "prompt_type"} \cup
    (CASE type = "code_review"  -> {"code", "focus_areas"}
       [] type = "github_task"  -> {"task", "context"}
       [] type = "optimization" -> {"type", "content", "criteria"}
       [] type = "debugging"    -> {"issue", "error", "steps"}
       [] OTHER                 -> {"code"})

\* The keyword values: one that clarity changes, one that looks like a
\* field.
KwargValues == {Chars("please x"), Chars("{code}")}

KwargsFor(type) ==
    UNION {[keys -> KwargValues] : keys \in SUBSET KwargNames(type)}

BatchPrompts ==
    {Chars(""), Chars("fix this bug"), Chars("please okay thanks"),
     Chars("  Okay, help me\n")}

\* Fragments that carry the clarity keywords (in both cases), the words
\* the suggestions look for, newlines and runs of tokens.
AnalyzeFragments ==
    {Chars("specific"), Chars("show CLEAR "), Chars("provide Exact\n"),
     Chars("a b c d e\n"), Chars("f g h i "), Chars("ex"), Chars("ample"),
     Chars("Code:")}

Messages == {"hello", "help me"}

Replies == {"hi", "sure"}

-----------------------------------------------------------------------------
(* The state machine *)

\* No call made yet: everything but the inputs of the call to come.
Quiet ==
    /\ op = "none"
    /\ techniques = None
    /\ prompt_type = ""
    /\ kwargs = <<>>
    /\ result = <<>>
    /\ results = <<>>
    /\ analysis = [length |-> 0, clarity_score |-> 0,
                   specificity_score |-> <<0, 2>>, structure_score |-> 25,
                   suggestions |-> <<>>]
    /\ raised = ""
    /\ steps = <<>>
    /\ conversation_history = <<>>
    /\ sent = <<>>
    /\ log = <<>>
    /\ before = <<>>

\* optimizer.optimize(prompt, t), for a t of args
OptimizeWith(args) ==
    \E t \in args :
        LET r == optimize(prompt, t)
        IN  /\ op = "none"
            /\ op' = "optimize"
            /\ techniques' = t
            /\ result' = r.value
            /\ raised' = r.raised
            /\ UNCHANGED <<prompt, prompt_type, kwargs, prompts, results,
                           analysis, steps, conversation_history, sent,
                           log, before>>

Optimize == OptimizeWith(TechniqueArgs)

OptimizeClarity == OptimizeWith({Some(<<"clarity">>)})

\* optimizer.get_optimized_prompt(type, **kw)
GetOptimizedPrompt ==
    \E type \in TemplateNames :
        \E kw \in KwargsFor(type) :
            LET r == get_optimized_prompt(type, kw)
            IN  /\ op = "none"
                /\ op' = "get_optimized_prompt"
                /\ prompt_type' = type
                /\ kwargs' = kw
                /\ result' = r.value
                /\ raised' = r.raised
                /\ steps' = r.steps
                /\ UNCHANGED <<prompt, techniques, prompts, results,
                               analysis, conversation_history, sent, log,
                               before>>

\* optimizer.batch_optimize(prompts)
BatchOptimize ==
    /\ op = "none"
    /\ op' = "batch_optimize"
    /\ results' = batch_optimize(prompts)
    /\ UNCHANGED <<prompt, techniques, prompt_type, kwargs, prompts,
                   result, analysis, raised, steps, conversation_history,
                   sent, log, before>>

\* optimizer.analyze_prompt_quality(prompt)
AnalyzePromptQuality ==
    /\ op = "none"
    /\ op' = "analyze_prompt_quality"
    /\ analysis' = analyze_prompt_quality(prompt)
    /\ UNCHANGED <<prompt, techniques, prompt_type, kwargs, prompts,
                   result, results, raised, steps, conversation_history,
                   sent, log, before>>

\* agent.chat(m) when the remote request returns the reply
ChatReturns ==
    \E m \in Messages, reply \in Replies :
        /\ Len(log) < MaxChats
        /\ Len(conversation_history) < 2 * MaxChats
        /\ op' = "chat"
        /\ before' = conversation_history
        /\ sent' = ChatRequest(conversation_history, m)
        /\ conversation_history' =
               ChatReply(ChatRequest(conversation_history, m), reply)
        /\ result' = reply
        /\ raised' = ""
        /\ log' = Append(log, <<m, reply>>)
        /\ UNCHANGED <<prompt, techniques, prompt_type, kwargs, prompts,
                       results, analysis, steps>>

\* agent.chat(m) when messages.create raises, or the response has no
\* content[0]: the exception leaves chat after the user turn was appended.
ChatRaises ==
    \E m \in Messages, e \in {"APIError", "IndexError"} :
        /\ Len(conversation_history) < 2 * MaxChats
        /\ op' = "chat"
        /\ before' = conversation_history
        /\ sent' = ChatRequest(conversation_history, m)
        /\ conversation_history' = ChatRequest(conversation_history, m)
        /\ result' = ""
        /\ raised' = e
        /\ UNCHANGED <<prompt, techniques, prompt_type, kwargs, prompts,
                       results, analysis, steps, log>>

\* agent.reset_conversation()
ResetConversation ==
    /\ op' = "reset_conversation"
    /\ before' = conversation_history
    /\ conversation_history' = reset_conversation(conversation_history)
    /\ log' = <<>>
    /\ result' = ""
    /\ raised' = ""
    /\ UNCHANGED <<prompt, techniques, prompt_type, kwargs, prompts,
                   results, analysis, steps, sent>>

-----------------------------------------------------------------------------
(* Specifications: the inputs each draws, and the calls made on them *)

InitPipeline == Quiet /\ prompt \in PipelinePrompts /\ prompts = <<>>

NextPipeline == Optimize

\* optimize with every technique list, on a few prompts
SpecPipeline == InitPipeline /\ [][NextPipeline]_vars

InitClarity == Quiet /\ prompt \in PromptsOf(ClarityFragments) /\ prompts = <<>>

NextClarity == OptimizeClarity

\* optimize with [clarity], on every prompt made of the clarity fragments
SpecClarity == InitClarity /\ [][NextClarity]_vars

InitTemplates == Quiet /\ prompt = <<>> /\ prompts = <<>>

NextTemplates == GetOptimizedPrompt

\* get_optimized_prompt with every template name and keyword mapping
SpecTemplates == InitTemplates /\ [][NextTemplates]_vars

InitBatch ==
    Quiet /\ prompt = <<>> /\ prompts \in SeqsUpTo(BatchPrompts, MaxBatch)

NextBatch == BatchOptimize

\* batch_optimize on every list of at most MaxBatch prompts
SpecBatch == InitBatch /\ [][NextBatch]_vars

InitAnalyze == Quiet /\ prompt \in PromptsOf(AnalyzeFragments) /\ prompts = <<>>

NextAnalyze == AnalyzePromptQuality

\* analyze_prompt_quality on every prompt made of the analysis fragments
SpecAnalyze == InitAnalyze /\ [][NextAnalyze]_vars

InitAgent == Quiet /\ prompt = <<>> /\ prompts = <<>>

NextAgentReturns == ChatReturns \/ ResetConversation

\* the agent when every remote request returns
SpecAgentReturns == InitAgent /\ [][NextAgentReturns]_vars

NextAgent == ChatReturns \/ ChatRaises \/ ResetConversation

\* the agent when a remote request may raise
SpecAgent == InitAgent /\ [][NextAgent]_vars

-----------------------------------------------------------------------------
(* Claims about optimize *)

\* The names of a technique list that are registered, in their order.
KnownOnly(ts) == SelectSeq(ts, LAMBDA n : n \in optimization_techniques)

\* The left-to-right fold of the technique functions over ts, written from
\* the last technique backwards.
RECURSIVE FoldTechniques(_, _)
FoldTechniques(p, ts) ==
    IF ts = <<>> THEN p
    ELSE ApplyTechnique(ts[Len(ts)],
                        FoldTechniques(p, SubSeq(ts, 1, Len(ts) - 1)))

\* The list a call's techniques argument stands for.
NamesOf(t) == IF t.given THEN t.names ELSE <<"clarity", "specificity", "structure">>

\* C1: optimize never raises; its result is the left-to-right fold of the
\* registered technique functions over the registered names of the list,
\* so it equals optimize of the list with the unknown names removed, a
\* list of unknown names only gives the prompt back, and an omitted list
\* stands for [clarity, specificity, structure].
C1_OptimizeIsFoldOfKnown ==
    op = "optimize" =>
        /\ raised = ""
        /\ result = FoldTechniques(prompt, KnownOnly(NamesOf(techniques)))
        /\ optimize(prompt, Some(KnownOnly(NamesOf(techniques)))) = Return(result)
        /\ (KnownOnly(NamesOf(techniques)) = <<>> => result = prompt)

\* An optimize call whose list mixes registered and unknown names.
C1_Witness ==
    /\ op = "optimize"
    /\ techniques = Some(<<"not_a_real_technique", "clarity">>)
    /\ prompt = Chars("fix this bug")
    /\ raised = ""
    /\ result # prompt

\* The text that follows the TASK: body in the structure template.
RequirementsAndFormat ==
    Chars("\n\nREQUIREMENTS:\n1. Provide clear, step-by-step guidance")
    \o Chars("\n2. Include code examples where applicable")
    \o Chars("\n3. Highlight important considerations")
    \o Chars("\n4. Suggest best practices")
    \o Chars("\n\nFORMAT:\n- Use bullet points for lists")
    \o Chars("\n- Use code blocks for code\n- Use bold for key terms")

\* C2: a list that ends with structure gives "TASK: ", then exactly what
\* the techniques before it give, then the fixed REQUIREMENTS and FORMAT
\* lists; [clarity, structure] embeds the clarity-transformed text and
\* differs from [structure, clarity].
C2_StructureWrapsPipelineOutput ==
    (/\ op = "optimize"
     /\ techniques.given
     /\ techniques.names # <<>>
     /\ techniques.names[Len(techniques.names)] = "structure") =>
        LET front == SubSeq(techniques.names, 1, Len(techniques.names) - 1)
        IN  /\ result = Chars("TASK: ") \o optimize(prompt, Some(front)).value
                          \o RequirementsAndFormat
            /\ front = <<"clarity">> =>
                 /\ result = Chars("TASK: ") \o _enhance_clarity(prompt)
                               \o RequirementsAndFormat
                 /\ result # optimize(prompt, Some(<<"structure", "clarity">>)).value

\* [clarity, structure] on a prompt clarity changes: the TASK: body is not
\* the raw prompt.
C2_Witness ==
    /\ op = "optimize"
    /\ techniques = Some(<<"clarity", "structure">>)
    /\ prompt = Chars("please okay thanks")
    /\ ~Contains(result, Chars("please"))
    /\ Contains(result, Chars("TASK: Be concise and direct."))

-----------------------------------------------------------------------------
(* Claims about get_optimized_prompt *)

RegisteredTemplates == {"code_review", "github_task", "optimization", "debugging"}

\* C3: a template name that is not registered makes get_optimized_prompt
\* raise, whatever the keyword mapping: no string is returned and neither
\* the substitution nor optimize has run.
C3_UnknownTemplateRaises ==
    (op = "get_optimized_prompt" /\ prompt_type \notin RegisteredTemplates) =>
        /\ raised # ""
        /\ result = <<>>
        /\ steps = <<>>

\* An unregistered name called with a keyword a template would use.
C3_Witness ==
    /\ op = "get_optimized_prompt"
    /\ prompt_type = "nonexistent_template"
    /\ "code" \in DOMAIN kwargs
    /\ "prompt_type" \notin DOMAIN kwargs
    /\ raised = "ValueError"

\* The placeholders of each registered template.
Placeholders(type) ==
    CASE type = "code_review"  -> {"code", "focus_areas"}
      [] type = "github_task"  -> {"task", "context"}
      [] type = "optimization" -> {"type", "content", "criteria"}
      [] type = "debugging"    -> {"issue", "error", "steps"}

\* Each registered template with its placeholders replaced by kw's values.
Rendered(type, kw) ==
    CASE type = "code_review" ->
            Chars("Review the following code for issues:\n") \o kw.code
            \o Chars("\nFocus on: ") \o kw.focus_areas
      [] type = "github_task" ->
            Chars("Help me with this GitHub task:\n") \o kw.task
            \o Chars("\nContext: ") \o kw.context
      [] type = "optimization" ->
            Chars("Optimize this ") \o kw.type \o Chars(":\n") \o kw.content
            \o Chars("\nCriteria: ") \o kw.criteria
      [] type = "debugging" ->
            Chars("Help me debug this issue:\n") \o kw.issue
            \o Chars("\nError: ") \o kw.error \o Chars("\nSteps: ") \o kw.steps

-----------------------------------------------------------------------------
(* Claims about batch_optimize *)

\* C5: batch_optimize gives one result per prompt, the i-th being optimize
\* of the i-th prompt with the default list, whatever the other prompts
\* and wherever it stands.
C5_BatchIsPointwise ==
    op = "batch_optimize" =>
        /\ Len(results) = Len(prompts)
        /\ \A i \in 1..Len(prompts) :
              results[i] = FoldTechniques(prompts[i],
                               <<"clarity", "specificity", "structure">>)
        /\ \A i, j \in 1..Len(prompts) :
              prompts[i] = prompts[j] => results[i] = results[j]

\* A batch with a repeated prompt around a different one.
C5_Witness ==
    /\ op = "batch_optimize"
    /\ Len(prompts) = 3
    /\ prompts[1] = prompts[3]
    /\ prompts[1] # prompts[2]
    /\ Len(results) = 3

-----------------------------------------------------------------------------
(* Claims about clarity *)

RemovedWords == {Chars("please"), Chars("thanks"), Chars("okay")}

ContainsRemovedWord(s) == \E w \in RemovedWords : Contains(s, w)

\* Every occurrence of the three words in p has whitespace, or an end of
\* p, on at least one of its two sides.
DelimitedOnOneSide(p) ==
    \A w \in RemovedWords :
        \A i \in 1..Len(p) :
            OccursAt(p, w, i) =>
                \/ i = 1
                \/ p[i - 1] \in Whitespace
                \/ i + Len(w) > Len(p)
                \/ p[i + Len(w)] \in Whitespace

\* C6 as claimed: for every prompt, optimize with [clarity] gives a text
\* that contains none of "please", "thanks", "okay".
C6_Original ==
    (op = "optimize" /\ techniques = Some(<<"clarity">>)) =>
        ~ContainsRemovedWord(result)

\* C6, amended: for every prompt in which each occurrence of the three
\* words has whitespace, or an end of the prompt, on at least one side (a
\* whole word, or the start or the end of one), optimize with [clarity]
\* gives a text that contains none of them.
C6_DelimitedOccurrencesAreRemoved ==
    (/\ op = "optimize"
     /\ techniques = Some(<<"clarity">>)
     /\ DelimitedOnOneSide(prompt)) =>
        ~ContainsRemovedWord(result)

\* A word at the start of a longer one and a whole word.
C6_Witness ==
    /\ op = "optimize"
    /\ techniques = Some(<<"clarity">>)
    /\ prompt = Chars("okayFix please")
    /\ DelimitedOnOneSide(prompt)
    /\ ~ContainsRemovedWord(result)
    /\ OccursAt(result, Chars("Fix \n\nBe concise"), 1)

-----------------------------------------------------------------------------
(* Claims about analyze_prompt_quality *)

\* The whitespace-delimited tokens of p, counted where they end.
TokenCount(p) ==
    Cardinality({i \in 1..Len(p) :
                    /\ p[i] \notin Whitespace
                    /\ (i = Len(p) \/ p[i + 1] \in Whitespace)})

NewlineCount(p) == Len(SelectSeq(p, LAMBDA c : c = "\n"))

When(condition, suggestion) == IF condition THEN <<suggestion>> ELSE <<>>

\* C7: the suggestions are the three fixed strings, in their order, each
\* there exactly when its own condition holds: fewer than 10 tokens, fewer
\* than 2 newlines, none of "example", "code", "specific" in the prompt.
C7_SuggestionsAreIndependent ==
    op = "analyze_prompt_quality" =>
        /\ analysis.suggestions =
              When(TokenCount(prompt) < 10, "Add more context and details")
              \o When(NewlineCount(prompt) < 2,
                      "Use sections or bullet points for clarity")
              \o When(/\ ~Contains(prompt, Chars("example"))
                      /\ ~Contains(prompt, Chars("code"))
                      /\ ~Contains(prompt, Chars("specific")),
                      "Include examples or specific cases")
        /\ analysis.length = TokenCount(prompt)

\* The second condition alone: ten tokens or more, one of the words, fewer
\* than two newlines.
C7_Witness ==
    /\ op = "analyze_prompt_quality"
    /\ TokenCount(prompt) >= 10
    /\ analysis.suggestions = <<"Use sections or bullet points for clarity">>

ClarityKeywords ==
    {Chars("specific"), Chars("exact"), Chars("clear"), Chars("show"),
     Chars("provide")}

\* C8: clarity_score is 10 times the number of the five keywords found in
\* the lower-cased prompt: one of 0, 10, ..., 50, and 50 when all five are
\* there.
C8_ClarityScoreIsTenPerKeyword ==
    op = "analyze_prompt_quality" =>
        LET found == {k \in ClarityKeywords : Contains(Lower(prompt), k)}
        IN  /\ analysis.clarity_score = 10 * Cardinality(found)
            /\ analysis.clarity_score \in {0, 10, 20, 30, 40, 50}
            /\ found = ClarityKeywords => analysis.clarity_score = 50

\* All five keywords, two of them not in lower case.
C8_Witness ==
    /\ op = "analyze_prompt_quality"
    /\ Contains(prompt, Chars("CLEAR"))
    /\ Contains(prompt, Chars("Exact"))
    /\ analysis.clarity_score = 50

-----------------------------------------------------------------------------
(* Claims about the agent *)

\* The turns of a sequence of (message, reply) pairs.
TurnsOf(pairs) ==
    [k \in 1..(2 * Len(pairs)) |->
        IF k % 2 = 1
        THEN [role |-> "user", content |-> pairs[(k + 1) \div 2][1]]
        ELSE [role |-> "assistant", content |-> pairs[k \div 2][2]]]

\* C9: when every request returns, the history is the (message, reply)
\* pairs of the chats since the last reset, in call order; a chat sends
\* the history so far with its user turn last, appends the reply and
\* returns it.
C9_HistoryIsChatsSinceReset ==
    /\ conversation_history = TurnsOf(log)
    /\ op = "reset_conversation" => conversation_history = <<>>
    /\ op = "chat" =>
          /\ log # <<>>
          /\ before = TurnsOf(SubSeq(log, 1, Len(log) - 1))
          /\ sent = before
                \o <<[role |-> "user", content |-> log[Len(log)][1]]>>
          /\ result = log[Len(log)][2]
          /\ conversation_history =
                sent \o <<[role |-> "assistant", content |-> result]>>

\* A second chat: the request carries the first exchange.
C9_Witness ==
    /\ op = "chat"
    /\ Len(log) = 2
    /\ Len(sent) = 3
    /\ Len(conversation_history) = 4

\* The roles of h are user, assistant, user, assistant, ...
Alternates(h) ==
    \A k \in 1..Len(h) :
        h[k].role = IF k % 2 = 1 THEN "user" ELSE "assistant"

\* C10: whether a request returns or raises, the history alternates user,
\* assistant, ... from a user turn; every request ends with one user turn
\* after complete pairs; a chat whose request raises leaves the history as
\* it was before the call.
C10_HistoryAlternates ==
    /\ Alternates(conversation_history)
    /\ op = "chat" => Alternates(sent) /\ Len(sent) % 2 = 1
    /\ (op = "chat" /\ raised # "") => conversation_history = before

=============================================================================
